---- MODULE Spec2Model ----
(***************************************************************************)
(* News classificator service: the FastTextNewsClassifier facade           *)
(* (classifier.py) and the FastAPI layer around it (main.py).              *)
(*                                                                         *)
(* Python strings are sequences of one-character strings.  A fastText      *)
(* label is a sequence of tokens, the token "__label__" being the prefix   *)
(* fastText puts before a label.  None is the empty sequence and a value   *)
(* that may be None is a sequence of at most one element.  Scores are      *)
(* percentages (0.0 is 0, 1.0 is 100).                                     *)
(***************************************************************************)
EXTENDS Integers, Sequences, FiniteSets, TLC

VARIABLES
    classifier,        \* main.py's global `classifier`: "None" or "object"
    config,            \* self.config
    category_mapping,  \* self.category_mapping
    category_names,    \* self.category_names
    model,             \* self.model: None or <<handle>>
    model_path,        \* self.model_path: None or <<path>>
    phase,             \* where the process is: "library", "startup", "serving", "failed"
    call,              \* the last operation called and its argument
    ret,               \* what that call returned or raised
    predicted,         \* the texts handed to self.model.predict during that call
    http,              \* the last HTTP response
    startup,           \* history: what lifespan found at startup and whether it raised
    everLoaded         \* history: a load_model call has succeeded

vars == <<classifier, config, category_mapping, category_names, model,
          model_path, phase, call, ret, predicted, http, startup, everLoaded>>

\* The attributes of the classifier object.
shared == <<classifier, config, category_mapping, category_names, model, model_path>>

-----------------------------------------------------------------------------
(* Bounds *)

MaxTextLen == 2     \* longest text given to classify_text
MaxBatch == 2       \* longest list given to classify_batch
MaxNormLen == 4     \* longest text in the normalisation check
MaxFieldLen == 1    \* longest title and description in the batch text check

-----------------------------------------------------------------------------
(* Python values *)

None == <<>>

Whitespace == {" ", "\t", "\n", "\r"}

Alphabet == {"a"} \cup Whitespace

RECURSIVE lstrip(_)
lstrip(s) ==
    IF s # <<>> /\ Head(s) \in Whitespace THEN lstrip(Tail(s)) ELSE s

RECURSIVE rstrip(_)
rstrip(s) ==
    IF s # <<>> /\ s[Len(s)] \in Whitespace
    THEN rstrip(SubSeq(s, 1, Len(s) - 1))
    ELSE s

\* str.strip()
strip(s) == rstrip(lstrip(s))

\* str.replace(old, new) for a one-character old
RECURSIVE replace(_, _, _)
replace(s, old, new) ==
    IF s = <<>> THEN <<>>
    ELSE (IF Head(s) = old THEN new ELSE <<Head(s)>>) \o replace(Tail(s), old, new)

\* dict.get(key, default)
Get(d, key, default) == IF key \in DOMAIN d THEN d[key] ELSE default

\* int(k) of a YAML key: a key is [str |-> BOOLEAN, digits |-> sequence of
\* characters]; a string that is no number makes int raise ValueError
Digits == "0" :> 0 @@ "1" :> 1 @@ "4" :> 4 @@ "5" :> 5 @@ "7" :> 7

RECURSIVE int(_)
int(ds) ==
    IF ds = <<>> THEN 0 ELSE 10 * int(SubSeq(ds, 1, Len(ds) - 1)) + Digits[ds[Len(ds)]]

IsNumber(ds) == ds # <<>> /\ \A i \in 1..Len(ds) : ds[i] \in DOMAIN Digits

\* All sequences over S of length at most n
RECURSIVE SeqsUpTo(_, _)
SeqsUpTo(S, n) ==
    IF n = 0 THEN {<<>>}
    ELSE LET shorter == SeqsUpTo(S, n - 1)
         IN shorter \cup {Append(s, x) : s \in shorter, x \in S}

-----------------------------------------------------------------------------
(* The environment: config.yaml, the Hugging Face Hub, the fastText artifact *)

Label(name) == <<"__label__", name>>

Key(ds) == [str |-> FALSE, digits |-> ds]      \* a YAML integer key
StrKey(ds) == [str |-> TRUE, digits |-> ds]    \* a YAML string key

ModelSection ==
    [repo_id |-> "data-silence/fasttext-rus-news-classifier",
     filename |-> "fasttext_news_classifier.bin",
     cache_dir |-> "./cache"]

\* a well-formed config.yaml
CfgGood ==
    [model |-> ModelSection,
     category_mapping |-> <<"economy">> :> 4 @@ <<"sports">> :> 1 @@ <<"society">> :> 5,
     category_names |-> {[key |-> Key(<<"1">>), name |-> "Sport"],
                         [key |-> Key(<<"4">>), name |-> "Ekonomika i finansy"],
                         [key |-> Key(<<"5">>), name |-> "Obshchestvo"]}]

\* string keys, no cache_dir, and no name for category 5
CfgNoDefault ==
    [model |-> [repo_id |-> "data-silence/fasttext-rus-news-classifier",
                filename |-> "fasttext_news_classifier.bin"],
     category_mapping |-> <<"economy">> :> 4,
     category_names |-> {[key |-> StrKey(<<"1">>), name |-> "Sport"],
                         [key |-> StrKey(<<"0", "4">>), name |-> "Ekonomika i finansy"]}]

\* a label mapped to an id that has no name, and another name for category 5
CfgDangling ==
    [model |-> ModelSection,
     category_mapping |-> <<"economy">> :> 7,
     category_names |-> {[key |-> Key(<<"5">>), name |-> "Raznoe"]}]

\* no model section
CfgNoModel ==
    [category_mapping |-> <<"economy">> :> 4,
     category_names |-> {[key |-> Key(<<"4">>), name |-> "Ekonomika i finansy"],
                         [key |-> Key(<<"5">>), name |-> "Obshchestvo"]}]

\* no category_mapping
CfgNoMapping ==
    [model |-> ModelSection,
     category_names |-> {[key |-> Key(<<"5">>), name |-> "Obshchestvo"]}]

\* a category_names key that is no number
CfgBadKey ==
    [model |-> ModelSection,
     category_mapping |-> <<"economy">> :> 4,
     category_names |-> {[key |-> StrKey(<<"a">>), name |-> "Obshchestvo"]}]

\* What open() and yaml.safe_load find at config_path
ConfigFiles ==
    {[readable |-> FALSE, data |-> CfgGood]}
        \cup {[readable |-> TRUE, data |-> d] :
                d \in {CfgGood, CfgNoDefault, CfgDangling, CfgNoModel, CfgNoMapping, CfgBadKey}}

\* What self.model.predict(text, k=1) does: it raises, or returns (labels, scores)
PredictRaises == [raises |-> TRUE, labels |-> <<>>, scores |-> <<>>]

Prediction(labels, scores) == [raises |-> FALSE, labels |-> labels, scores |-> scores]

Outcomes ==
    {PredictRaises,
     Prediction(<<>>, <<>>),
     Prediction(<<Label("economy")>>, <<90>>),
     Prediction(<<Label("sports_extreme")>>, <<40>>)}

\* The characters a stripped, non-empty text can start with
FirstChars == (Alphabet \ Whitespace) \cup {"."}

\* A loaded artifact is a deterministic function of the text; the artifacts
\* considered are those that decide by the first character
Handles == [FirstChars -> Outcomes]

\* fastText splits a text into words at whitespace: a text without a word
\* gets no label
predict(handle, text) ==
    LET words == lstrip(text)
    IN  IF words = <<>> THEN Prediction(<<>>, <<>>) ELSE handle[Head(words)]

\* What os.makedirs, hf_hub_download and fasttext.load_model do in one load_model call
LoadEnvs ==
    {[makedirs |-> FALSE, download |-> FALSE, load |-> None],
     [makedirs |-> TRUE, download |-> FALSE, load |-> None],
     [makedirs |-> TRUE, download |-> TRUE, load |-> None]}
        \cup {[makedirs |-> TRUE, download |-> TRUE, load |-> <<h>>] : h \in Handles}

hf_hub_download(repo_id, filename, cache_dir) ==
    [cache_dir |-> cache_dir, repo_id |-> repo_id, filename |-> filename]

-----------------------------------------------------------------------------
(* classifier.py *)

Raise(exc) == [raised |-> TRUE, value |-> exc]

Return(v) == [raised |-> FALSE, value |-> v]

\* _load_config
load_config(file) ==
    IF file.readable THEN Return(file.data) ELSE Raise("OSError")

\* {int(k): v for k, v in self.config['category_names'].items()}
names_by_id(raw) ==
    [i \in {int(p.key.digits) : p \in raw} |->
        (CHOOSE p \in raw : int(p.key.digits) = i).name]

\* __init__: the attributes of the new object, or what it raises
init_classifier(file) ==
    LET loaded == load_config(file)
        cfg == loaded.value
    IN  IF loaded.raised THEN loaded
        ELSE IF "category_mapping" \notin DOMAIN cfg \/ "category_names" \notin DOMAIN cfg
        THEN Raise("KeyError")
        ELSE IF \E p \in cfg.category_names : ~IsNumber(p.key.digits)
        THEN Raise("ValueError")
        ELSE Return([model |-> None,
                     model_path |-> None,
                     config |-> cfg,
                     category_mapping |-> cfg.category_mapping,
                     category_names |-> names_by_id(cfg.category_names)])

\* Mutant: load_model forgets the model it had before it starts
load_model_resetting(self, env) ==
    LET reset == [self EXCEPT !.model = None]
    IN  IF "model" \notin DOMAIN self.config \/ ~env.makedirs \/ ~env.download
        THEN [raised |-> TRUE, value |-> "Exception", self |-> reset]
        ELSE IF env.load = None
        THEN [raised |-> TRUE, value |-> "LoadError", self |-> reset]
        ELSE [raised |-> FALSE, value |-> None, self |-> [reset EXCEPT !.model = env.load]]

\* load_model: what it raises or returns, and self after it
load_model(self, env) ==
    IF "model" \notin DOMAIN self.config
    THEN [raised |-> TRUE, value |-> "KeyError", self |-> self]
    ELSE IF ~env.makedirs
    THEN [raised |-> TRUE, value |-> "OSError", self |-> self]
    ELSE IF ~env.download
    THEN [raised |-> TRUE, value |-> "DownloadError", self |-> self]
    ELSE LET path == hf_hub_download(self.config.model.repo_id,
                                     self.config.model.filename,
                                     Get(self.config.model, "cache_dir", "./model_cache"))
             downloaded == [self EXCEPT !.model_path = <<path>>]
         IN  IF env.load = None
             THEN [raised |-> TRUE, value |-> "LoadError", self |-> downloaded]
             ELSE [raised |-> FALSE, value |-> None,
                   self |-> [downloaded EXCEPT !.model = env.load]]

DefaultId == 5

DefaultName == "Obshchestvo"     \* 'Общество'

\* the result for an empty text
Unknown ==
    [original_category |-> <<"unknown">>, original_score |-> 0,
     category_id |-> DefaultId, category_name |-> DefaultName, confidence |-> 0]

\* the result when classification fails
Error ==
    [original_category |-> <<"error">>, original_score |-> 0,
     category_id |-> DefaultId, category_name |-> DefaultName, confidence |-> 0]

\* Mutant: the text is not stripped
normalize_unstripped(text) == replace(replace(text, "\n", <<" ">>), "\r", <<>>)

\* Mutant: a carriage return becomes a space too
normalize_cr_space(text) == replace(replace(strip(text), "\n", <<" ">>), "\r", <<" ">>)

\* text.strip().replace('\n', ' ').replace('\r', '')
normalize(text) == replace(replace(strip(text), "\n", <<" ">>), "\r", <<>>)

\* prediction[0][0].replace("__label__", "")
native_label(raw) == SelectSeq(raw, LAMBDA tok : tok # "__label__")

\* Mutant: an unmapped label falls to category 1
mapped_id_first(self, original_label) == Get(self.category_mapping, original_label, 1)

\* self.category_mapping.get(original_label, 5)
mapped_id(self, original_label) == Get(self.category_mapping, original_label, DefaultId)

\* The body of the try block of classify_text
try_classify(self, text) ==
    LET prediction == predict(self.model[1], text)
    IN  IF prediction.raises
        THEN Raise("Exception")
        ELSE IF prediction.labels = <<>> \/ prediction.scores = <<>>
        THEN Raise("IndexError")
        ELSE LET original_label == native_label(prediction.labels[1])
                 original_score == prediction.scores[1]
                 id == mapped_id(self, original_label)
             IN  IF id \notin DOMAIN self.category_names
                 THEN Raise("KeyError")
                 ELSE Return([original_category |-> original_label,
                              original_score |-> original_score,
                              category_id |-> id,
                              category_name |-> self.category_names[id],
                              confidence |-> original_score])

\* Mutant: no except clause
classify_propagating(self, text) == try_classify(self, text)

\* try: ... except Exception: return the Error result
classify_or_error(self, text) ==
    LET tried == try_classify(self, text)
    IN  IF tried.raised THEN Return(Error) ELSE tried

\* classify_text: what it raises or returns, and the texts it gave to predict
classify_text(self, text) ==
    IF self.model = None
    THEN Raise("RuntimeError") @@ [predicted |-> <<>>]
    ELSE LET t == normalize(text)
         IN  IF t = <<>>
             THEN Return(Unknown) @@ [predicted |-> <<>>]
             ELSE classify_or_error(self, t) @@ [predicted |-> <<t>>]

\* Mutant: title and description are joined by a space, without the full stop
batch_text_undotted(item) ==
    strip(Get(item, "title", <<>>) \o <<" ">> \o Get(item, "description", <<>>))

\* f"{title}. {description}".strip()
batch_text(item) ==
    strip(Get(item, "title", <<>>) \o <<".", " ">> \o Get(item, "description", <<>>))

\* Mutant: the index of the item is lost
with_index_lost(result, index) == ("index" :> 0) @@ result

\* result['index'] = index
with_index(result, index) == ("index" :> index) @@ result

\* classify_batch: what it raises or returns, and the texts it gave to predict
RECURSIVE classify_batch(_, _)
classify_batch(self, items) ==
    IF items = <<>> THEN Return(<<>>) @@ [predicted |-> <<>>]
    ELSE LET item == Head(items)
             index == Get(item, "index", 0)
             result == classify_text(self, batch_text(item))
             rest == classify_batch(self, Tail(items))
         IN  IF result.raised THEN result
             ELSE IF rest.raised
             THEN [raised |-> TRUE, value |-> rest.value,
                   predicted |-> result.predicted \o rest.predicted]
             ELSE [raised |-> FALSE,
                   value |-> <<with_index(result.value, index)>> \o rest.value,
                   predicted |-> result.predicted \o rest.predicted]

\* is_loaded
is_loaded(self) == self.model # None

\* get_model_info
get_model_info(self) ==
    IF "model" \notin DOMAIN self.config THEN Raise("KeyError")
    ELSE Return([repo_id |-> self.config.model.repo_id,
                 filename |-> self.config.model.filename,
                 model_path |-> self.model_path,
                 is_loaded |-> is_loaded(self),
                 categories |-> Cardinality(DOMAIN self.category_mapping),
                 target_categories |-> Cardinality(DOMAIN self.category_names)])

-----------------------------------------------------------------------------
(* The classifier object as state, and the operations on it *)

\* the object main.py's global `classifier` (test_classifier.py's local) refers to
Self ==
    [model |-> model, model_path |-> model_path, config |-> config,
     category_mapping |-> category_mapping, category_names |-> category_names]

\* the attributes become those of `self`
Store(self) ==
    /\ model' = self.model
    /\ model_path' = self.model_path
    /\ config' = self.config
    /\ category_mapping' = self.category_mapping
    /\ category_names' = self.category_names

NoCall == [op |-> "none", arg |-> None]

NoReturn == Return(None)

NoResponse == [endpoint |-> "none", status |-> 0, body |-> None]

\* Inputs
Texts == SeqsUpTo({"a", " ", "\n"}, MaxTextLen)

Items ==
    {[index |-> 7, title |-> <<"a">>, description |-> <<"a">>],
     [index |-> 3, title |-> <<>>, description |-> <<" ">>],
     [title |-> <<"a">>]}

Batches == SeqsUpTo(Items, MaxBatch)

\* classifier = FastTextNewsClassifier()
Construct ==
    /\ classifier = "None"
    /\ \E file \in ConfigFiles :
          LET made == init_classifier(file)
          IN  /\ call' = [op |-> "init", arg |-> file]
              /\ IF made.raised
                 THEN /\ ret' = made
                      /\ UNCHANGED shared
                 ELSE /\ ret' = NoReturn
                      /\ classifier' = "object"
                      /\ Store(made.value)
    /\ predicted' = <<>>
    /\ UNCHANGED <<phase, http, startup, everLoaded>>

\* classifier.load_model()
LoadModel ==
    /\ classifier = "object"
    /\ \E env \in LoadEnvs :
          LET done == load_model(Self, env)
          IN  /\ call' = [op |-> "load_model", arg |-> env]
              /\ ret' = [raised |-> done.raised, value |-> done.value]
              /\ Store(done.self)
              /\ everLoaded' = (everLoaded \/ ~done.raised)
    /\ predicted' = <<>>
    /\ UNCHANGED <<classifier, phase, http, startup>>

\* Mutant: classify_text remembers the path of the last text in self.model_path
ClassifyTextCaching(text) ==
    /\ classifier = "object"
    /\ LET done == classify_text(Self, text)
       IN  /\ call' = [op |-> "classify_text", arg |-> text]
           /\ ret' = [raised |-> done.raised, value |-> done.value]
           /\ predicted' = done.predicted
           /\ model_path' = <<text>>
    /\ UNCHANGED <<classifier, config, category_mapping, category_names, model,
                   phase, http, startup, everLoaded>>

\* classifier.classify_text(text)
ClassifyText(text) ==
    /\ classifier = "object"
    /\ LET done == classify_text(Self, text)
       IN  /\ call' = [op |-> "classify_text", arg |-> text]
           /\ ret' = [raised |-> done.raised, value |-> done.value]
           /\ predicted' = done.predicted
    /\ UNCHANGED <<shared, phase, http, startup, everLoaded>>

\* classifier.classify_batch(items)
ClassifyBatch(items) ==
    /\ classifier = "object"
    /\ LET done == classify_batch(Self, items)
       IN  /\ call' = [op |-> "classify_batch", arg |-> items]
           /\ ret' = [raised |-> done.raised, value |-> done.value]
           /\ predicted' = done.predicted
    /\ UNCHANGED <<shared, phase, http, startup, everLoaded>>

\* classifier.is_loaded()
IsLoaded ==
    /\ classifier = "object"
    /\ call' = [op |-> "is_loaded", arg |-> None]
    /\ ret' = Return(is_loaded(Self))
    /\ predicted' = <<>>
    /\ UNCHANGED <<shared, phase, http, startup, everLoaded>>

\* classifier.get_model_info()
GetModelInfo ==
    /\ classifier = "object"
    /\ call' = [op |-> "get_model_info", arg |-> None]
    /\ ret' = get_model_info(Self)
    /\ predicted' = <<>>
    /\ UNCHANGED <<shared, phase, http, startup, everLoaded>>

\* Before FastTextNewsClassifier() is called
NoObject ==
    /\ classifier = "None"
    /\ config = None
    /\ category_mapping = None
    /\ category_names = None
    /\ model = None
    /\ model_path = None
    /\ call = NoCall
    /\ ret = NoReturn
    /\ predicted = <<>>
    /\ http = NoResponse
    /\ startup = None
    /\ everLoaded = FALSE

\* The classifier used as a library, as test_classifier.py uses it
Init ==
    /\ NoObject
    /\ phase = "library"

Next ==
    \/ Construct
    \/ LoadModel
    \/ \E text \in Texts : ClassifyText(text)
    \/ \E items \in Batches : ClassifyBatch(items)
    \/ IsLoaded
    \/ GetModelInfo

Spec == Init /\ [][Next]_vars

-----------------------------------------------------------------------------
(* main.py *)

NoSelf ==
    [model |-> None, model_path |-> None, config |-> None,
     category_mapping |-> None, category_names |-> None]

\* Mutant: lifespan logs the exception and goes on
lifespan_swallowing(file, env) ==
    LET made == init_classifier(file)
    IN  IF made.raised
        THEN [raised |-> FALSE, value |-> None, classifier |-> "None", self |-> NoSelf]
        ELSE LET done == load_model(made.value, env)
             IN  [raised |-> FALSE, value |-> None,
                  classifier |-> "object", self |-> done.self]

\* lifespan, up to its yield: the global `classifier`, the object's attributes,
\* and whether the exception is raised out of startup
lifespan(file, env) ==
    LET made == init_classifier(file)
    IN  IF made.raised
        THEN [raised |-> TRUE, value |-> made.value, classifier |-> "None", self |-> NoSelf]
        ELSE LET done == load_model(made.value, env)
             IN  [raised |-> done.raised, value |-> done.value,
                  classifier |-> "object", self |-> done.self]

\* raise HTTPException(status_code=..., detail=...)
HTTPException(endpoint, status_code, detail) ==
    [endpoint |-> endpoint, status |-> status_code, body |-> detail]

OK(endpoint, body) == [endpoint |-> endpoint, status |-> 200, body |-> body]

ResponseFields ==
    {"original_category", "original_score", "category_id", "category_name", "confidence"}

\* ClassifyResponse(**result): every field is required
ClassifyResponse(result) ==
    IF ResponseFields \subseteq DOMAIN result
    THEN Return([f \in ResponseFields |-> result[f]])
    ELSE Raise("ValidationError")

\* Mutant: the guard does not ask whether the model is loaded
not_loaded_none_only(cls, self) == cls = "None"

\* the guard of POST /classify and POST /classify/batch
not_loaded(cls, self) == cls = "None" \/ ~is_loaded(self)

\* POST /classify: the response, and what was called on the classifier
http_classify_text(cls, self, text) ==
    IF not_loaded(cls, self)
    THEN [response |-> HTTPException("/classify", 503, "Classifier not loaded"),
          call |-> IF cls = "None" THEN NoCall ELSE [op |-> "is_loaded", arg |-> None],
          predicted |-> <<>>]
    ELSE LET done == classify_text(self, text)
             made == ClassifyResponse(done.value)
         IN  [response |->
                  IF done.raised \/ made.raised
                  THEN HTTPException("/classify", 500, "Classification failed")
                  ELSE OK("/classify", made.value),
              call |-> [op |-> "classify_text", arg |-> text],
              predicted |-> done.predicted]

\* item.model_dump() of a BatchItem: title and description default to ""
model_dump(item) ==
    [index |-> item.index,
     title |-> Get(item, "title", <<>>),
     description |-> Get(item, "description", <<>>)]

\* POST /classify/batch
http_classify_batch(cls, self, request_items) ==
    IF not_loaded(cls, self)
    THEN [response |-> HTTPException("/classify/batch", 503, "Classifier not loaded"),
          call |-> IF cls = "None" THEN NoCall ELSE [op |-> "is_loaded", arg |-> None],
          predicted |-> <<>>]
    ELSE LET items == [i \in 1..Len(request_items) |-> model_dump(request_items[i])]
             done == classify_batch(self, items)
         IN  [response |->
                  IF done.raised
                  THEN HTTPException("/classify/batch", 500, "Batch classification failed")
                  ELSE OK("/classify/batch", [results |-> done.value]),
              call |-> [op |-> "classify_batch", arg |-> items],
              predicted |-> done.predicted]

\* GET /health (without the uptime)
health_check(cls, self) ==
    IF cls = "None"
    THEN HTTPException("/health", 503, "Classifier not initialized")
    ELSE LET info == get_model_info(self)
         IN  IF info.raised
             THEN HTTPException("/health", 500, "Internal Server Error")
             ELSE OK("/health",
                     [status |-> IF is_loaded(self) THEN "healthy" ELSE "unhealthy",
                      model_loaded |-> is_loaded(self),
                      model_info |-> info.value])

\* GET /categories
get_categories(cls, self) ==
    IF cls = "None"
    THEN HTTPException("/categories", 503, "Classifier not initialized")
    ELSE OK("/categories",
            [fasttext_categories |-> DOMAIN self.category_mapping,
             project_categories |-> self.category_names,
             mapping |-> self.category_mapping])

RequestItems == {item \in Items : "index" \in DOMAIN item}

RequestBatches == SeqsUpTo(RequestItems, MaxBatch)

\* the startup of the application
Lifespan ==
    /\ phase = "startup"
    /\ \E file \in ConfigFiles, env \in LoadEnvs :
          LET done == lifespan(file, env)
          IN  /\ classifier' = done.classifier
              /\ Store(done.self)
              /\ phase' = IF done.raised THEN "failed" ELSE "serving"
              /\ startup' = <<[file |-> file, env |-> env, raised |-> done.raised]>>
              /\ everLoaded' = is_loaded(done.self)
              /\ call' = [op |-> "lifespan", arg |-> None]
              /\ ret' = [raised |-> done.raised, value |-> done.value]
    /\ predicted' = <<>>
    /\ UNCHANGED http

HttpClassifyText(text) ==
    /\ phase # "library"
    /\ LET done == http_classify_text(classifier, Self, text)
       IN  /\ http' = done.response
           /\ call' = done.call
           /\ predicted' = done.predicted
    /\ UNCHANGED <<shared, phase, ret, startup, everLoaded>>

HttpClassifyBatch(items) ==
    /\ phase # "library"
    /\ LET done == http_classify_batch(classifier, Self, items)
       IN  /\ http' = done.response
           /\ call' = done.call
           /\ predicted' = done.predicted
    /\ UNCHANGED <<shared, phase, ret, startup, everLoaded>>

HttpHealth ==
    /\ phase # "library"
    /\ http' = health_check(classifier, Self)
    /\ call' = IF classifier = "None" THEN NoCall ELSE [op |-> "get_model_info", arg |-> None]
    /\ predicted' = <<>>
    /\ UNCHANGED <<shared, phase, ret, startup, everLoaded>>

HttpCategories ==
    /\ phase # "library"
    /\ http' = get_categories(classifier, Self)
    /\ call' = NoCall
    /\ predicted' = <<>>
    /\ UNCHANGED <<shared, phase, ret, startup, everLoaded>>

\* The service process: requests are answered whatever the startup did
ServiceInit ==
    /\ NoObject
    /\ phase = "startup"

ServiceNext ==
    \/ Lifespan
    \/ \E text \in Texts : HttpClassifyText(text)
    \/ \E items \in RequestBatches : HttpClassifyBatch(items)
    \/ HttpHealth
    \/ HttpCategories

ServiceSpec == ServiceInit /\ [][ServiceNext]_vars

-----------------------------------------------------------------------------
(* A loaded classifier given one text, for every text up to MaxNormLen *)

LoadableConfigs == {CfgGood, CfgNoDefault, CfgDangling}

ReadyInit ==
    /\ classifier = "object"
    /\ \E cfg \in LoadableConfigs, h \in Handles :
          LET made == init_classifier([readable |-> TRUE, data |-> cfg])
              done == load_model(made.value,
                                 [makedirs |-> TRUE, download |-> TRUE, load |-> <<h>>])
          IN  /\ model = done.self.model
              /\ model_path = done.self.model_path
              /\ config = done.self.config
              /\ category_mapping = done.self.category_mapping
              /\ category_names = done.self.category_names
    /\ phase = "library"
    /\ call \in {[op |-> "pending", arg |-> text] : text \in SeqsUpTo(Alphabet, MaxNormLen)}
    /\ ret = NoReturn
    /\ predicted = <<>>
    /\ http = NoResponse
    /\ startup = None
    /\ everLoaded = TRUE

ReadyNext == call.op = "pending" /\ ClassifyText(call.arg)

ReadySpec == ReadyInit /\ [][ReadyNext]_vars

-----------------------------------------------------------------------------
(* A loaded classifier given one batch: an item with every title and          *)
(* description up to MaxFieldLen, alone or beside an item without words      *)

Fields == SeqsUpTo(Alphabet, MaxFieldLen)

FieldItems == {[index |-> 7, title |-> t, description |-> d] : t \in Fields, d \in Fields}

WordlessItem == [index |-> 3, title |-> <<"\n">>, description |-> <<"\t">>]

FieldBatches ==
    {<<item>> : item \in FieldItems}
        \cup {<<item, WordlessItem>> : item \in FieldItems}
        \cup {<<[description |-> item.description], item>> : item \in FieldItems}

BatchReadyInit ==
    /\ classifier = "object"
    /\ \E cfg \in LoadableConfigs, h \in Handles :
          LET made == init_classifier([readable |-> TRUE, data |-> cfg])
              done == load_model(made.value,
                                 [makedirs |-> TRUE, download |-> TRUE, load |-> <<h>>])
          IN  /\ model = done.self.model
              /\ model_path = done.self.model_path
              /\ config = done.self.config
              /\ category_mapping = done.self.category_mapping
              /\ category_names = done.self.category_names
    /\ phase = "library"
    /\ call \in {[op |-> "pending", arg |-> items] : items \in FieldBatches}
    /\ ret = NoReturn
    /\ predicted = <<>>
    /\ http = NoResponse
    /\ startup = None
    /\ everLoaded = TRUE

BatchReadyNext == call.op = "pending" /\ ClassifyBatch(call.arg)

BatchReadySpec == BatchReadyInit /\ [][BatchReadyNext]_vars

-----------------------------------------------------------------------------
(* Properties *)

WhitespaceOnly(text) == \A i \in 1..Len(text) : text[i] \in Whitespace

\* what predict answered for the text the last call gave it
Answer == predict(model[1], predicted[1])

\* C1: every classify_text call on a loaded classifier returns, and returns a
\* category_id that is a key of category_names, whatever the tables of the
\* configuration hold.
C1_ClassifyNamesItsCategory ==
    (call.op = "classify_text" /\ is_loaded(Self))
        => (~ret.raised /\ ret.value.category_id \in DOMAIN category_names)

\* C2: when the classifier is loaded and predict raises for the non-empty
\* normalized text, classify_text returns exactly the Error result ("error",
\* 0.0, 5, 'Общество', 0.0) and leaves the classifier as it was, so it is still
\* loaded for the calls that follow.
C2_InferenceErrorIsAbsorbed ==
    [][(/\ call'.op = "classify_text"
        /\ is_loaded(Self)
        /\ predicted' # <<>>
        /\ predict(model[1], predicted'[1]).raises)
          => (/\ ret' = Return(Error)
              /\ model' = model
              /\ model' # None)]_vars

C2_Witness ==
    /\ call.op = "classify_text"
    /\ is_loaded(Self)
    /\ predicted # <<>>
    /\ Answer.raises
    /\ ret = Return(Error)

\* C3: for every text that is empty or only whitespace, classify_text on a
\* loaded classifier returns the Unknown result ("unknown", 0.0, 5, 'Общество',
\* 0.0) and predict is not called.
C3_BlankTextIsUnknown ==
    (call.op = "classify_text" /\ is_loaded(Self) /\ WhitespaceOnly(call.arg))
        => (ret = Return(Unknown) /\ predicted = <<>>)

C3_Witness ==
    /\ call.op = "classify_text"
    /\ Len(call.arg) > 1
    /\ WhitespaceOnly(call.arg)
    /\ ret = Return(Unknown)

\* the id the claim gives label L: table[L] if L is in the table, otherwise 5
ClaimedId(L) == IF L \in DOMAIN category_mapping THEN category_mapping[L] ELSE 5

\* predict returned a label and a score for the text of the last call
Succeeded ==
    /\ call.op = "classify_text"
    /\ is_loaded(Self)
    /\ predicted # <<>>
    /\ ~Answer.raises
    /\ Answer.labels # <<>>
    /\ Answer.scores # <<>>

C5_BatchKeepsIndexes ==
    (call.op = "classify_batch" /\ is_loaded(Self))
        => /\ ~ret.raised
           /\ Len(ret.value) = Len(call.arg)
           /\ \A i \in 1..Len(call.arg) :
                 "index" \in DOMAIN call.arg[i] => ret.value[i].index = call.arg[i].index

\* a batch with one item that fell to the Error result and one that did not
C5_Witness ==
    /\ call.op = "classify_batch"
    /\ is_loaded(Self)
    /\ Len(call.arg) = 2
    /\ ret.value[1].index = 3
    /\ ret.value[1].original_category = <<"error">>
    /\ ret.value[2].index = 7
    /\ ret.value[2].original_category = <<"economy">>

\* C6: is_loaded is false in every state before a load_model call has
\* succeeded and true in every state after one has, and no operation makes a
\* loaded classifier not loaded.
C6_ReadinessIsMonotonic ==
    /\ [](is_loaded(Self) <=> everLoaded)
    /\ [][model # None => model' # None]_vars

\* a load_model call that failed on a loaded classifier, still loaded
C6_Witness ==
    /\ call.op = "load_model"
    /\ ret.raised
    /\ ret.value = "LoadError"
    /\ everLoaded
    /\ is_loaded(Self)

\* the configuration, the download or the load failed at startup
StartupFails(st) ==
    \/ ~st.file.readable
    \/ "category_mapping" \notin DOMAIN st.file.data
    \/ "category_names" \notin DOMAIN st.file.data
    \/ "model" \notin DOMAIN st.file.data
    \/ \E p \in st.file.data.category_names : ~IsNumber(p.key.digits)
    \/ ~st.env.makedirs
    \/ ~st.env.download
    \/ st.env.load = None

ClassifyEndpoints == {"/classify", "/classify/batch"}

\* C7: if the configuration, the download or the load fails at startup, the
\* exception is raised out of lifespan, the classifier is never loaded, and no
\* request to classify is answered with a classification.
C7_FailedStartupServesNothing ==
    (startup # None /\ StartupFails(startup[1]))
        => /\ startup[1].raised
           /\ phase = "failed"
           /\ ~is_loaded(Self)
           /\ ~everLoaded
           /\ ~(http.endpoint \in ClassifyEndpoints /\ http.status = 200)

\* a request to classify after the load failed at startup
C7_Witness ==
    /\ phase = "failed"
    /\ classifier = "object"
    /\ call.op = "is_loaded"
    /\ http.endpoint = "/classify"
    /\ http.status = 503

\* the first and the last index of text that hold no whitespace
First(text) == CHOOSE i \in 1..Len(text) :
    text[i] \notin Whitespace /\ \A j \in 1..(i - 1) : text[j] \in Whitespace

Last(text) == CHOOSE i \in 1..Len(text) :
    text[i] \notin Whitespace /\ \A j \in (i + 1)..Len(text) : text[j] \in Whitespace

\* text without the whitespace around it
Core(text) == IF WhitespaceOnly(text) THEN <<>> ELSE SubSeq(text, First(text), Last(text))

LineBreaks == {"\n", "\r"}

\* every run of newlines and carriage returns becomes one space
RECURSIVE Collapsed(_)
Collapsed(s) ==
    IF s = <<>> THEN <<>>
    ELSE IF Head(s) \notin LineBreaks THEN <<Head(s)>> \o Collapsed(Tail(s))
    ELSE IF Len(s) > 1 /\ s[2] \in LineBreaks THEN Collapsed(Tail(s))
    ELSE <<" ">> \o Collapsed(Tail(s))

\* every newline becomes one space and every carriage return is dropped
RECURSIVE Cleaned(_)
Cleaned(s) ==
    IF s = <<>> THEN <<>>
    ELSE LET c == s[Len(s)]
         IN  Cleaned(SubSeq(s, 1, Len(s) - 1))
                 \o (IF c = "\n" THEN <<" ">> ELSE IF c = "\r" THEN <<>> ELSE <<c>>)

Tidy(text) ==
    /\ text # <<>>
    /\ text[1] \notin Whitespace
    /\ text[Len(text)] \notin Whitespace
    /\ \A i \in 1..Len(text) : text[i] \notin LineBreaks

\* C8 as stated: the text given to predict is the stripped text with one space
\* wherever it had newlines or carriage returns.
C8_RunsBecomeOneSpace ==
    (call.op = "classify_text" /\ ~WhitespaceOnly(call.arg))
        => (predicted = <<Collapsed(Core(call.arg))>> /\ Tidy(predicted[1]))

\* C8 as amended: the text given to predict has no whitespace around it and no
\* newline or carriage return, and it is the stripped text with every newline
\* replaced by one space and every carriage return dropped.
C8_NewlineToSpaceReturnDropped ==
    (call.op = "classify_text" /\ ~WhitespaceOnly(call.arg))
        => (predicted = <<Cleaned(Core(call.arg))>> /\ Tidy(predicted[1]))

\* "a\r\na" reaches predict as "a a"
C8_Witness ==
    /\ call.op = "classify_text"
    /\ call.arg = <<"a", "\r", "\n", "a">>
    /\ predicted = <<(<<"a", " ", "a">>)>>

\* C9: POST /classify and POST /classify/batch answer 503 without calling
\* classify_text or classify_batch when the classifier is absent or not
\* loaded, and answer 200 with the classification when it is loaded, whatever
\* the text, the label and the outcome of predict.
C9_Only503BeforeReady ==
    [][(http' # http /\ http'.endpoint \in ClassifyEndpoints)
          => IF classifier = "None" \/ model = None
             THEN /\ http'.status = 503
                  /\ call'.op \notin {"classify_text", "classify_batch"}
                  /\ predicted' = <<>>
             ELSE /\ http'.status = 200
                  /\ call'.op \in {"classify_text", "classify_batch"}]_vars

\* an inference error answered with 200 and the Error result
C9_Witness ==
    /\ http.endpoint = "/classify"
    /\ http.status = 200
    /\ http.body.original_category = <<"error">>
    /\ predicted # <<>>
    /\ Answer.raises

SteadyOps == {"classify_text", "classify_batch", "is_loaded", "get_model_info"}

\* C10: classify_text, classify_batch, is_loaded and get_model_info leave the
\* model, the model path, the configuration and both tables unchanged, and
\* classify_text called again with the same text returns the same result.
C10_SteadyStateWritesNothing ==
    /\ [][call'.op \in SteadyOps
            => UNCHANGED <<model, model_path, config, category_mapping, category_names>>]_vars
    /\ [][(call.op = "classify_text" /\ call'.op = "classify_text" /\ call'.arg = call.arg)
            => ret' = ret]_vars

\* a classification on a loaded classifier whose model path is the downloaded one
C10_Witness ==
    /\ call.op = "classify_text"
    /\ is_loaded(Self)
    /\ predicted # <<>>
    /\ model_path # None
    /\ "repo_id" \in DOMAIN model_path[1]

\* neither the title nor the description of the item holds a word
Wordless(item) ==
    /\ WhitespaceOnly(Get(item, "title", <<>>))
    /\ WhitespaceOnly(Get(item, "description", <<>>))

\* C11: in classify_batch on a loaded classifier the text given to
\* classify_text is never empty: every item causes exactly one predict call,
\* on a non-empty text, an item whose title and description are empty or only
\* whitespace is classified as the text ".", and no result is the Unknown
\* result of an empty text (native label "unknown").
C11_BatchTextIsNeverEmpty ==
    (call.op = "classify_batch" /\ is_loaded(Self))
        => /\ ~ret.raised
           /\ Len(predicted) = Len(call.arg)
           /\ \A i \in 1..Len(call.arg) :
                 /\ predicted[i] # <<>>
                 /\ Wordless(call.arg[i]) => predicted[i] = <<".">>
                 /\ ret.value[i].original_category # <<"unknown">>

\* two items without words, one of them with whitespace in both fields, each
\* given to predict as "."
C11_Witness ==
    /\ call.op = "classify_batch"
    /\ Len(call.arg) = 2
    /\ "title" \in DOMAIN call.arg[1]
    /\ call.arg[1].title = <<" ">>
    /\ call.arg[1].description = <<"\r">>
    /\ call.arg[2] = WordlessItem
    /\ predicted = <<(<<".">>), (<<".">>)>>
    /\ ret.value[1].original_category = <<"economy">>

=============================================================================
